---- MODULE Spec2Model ----
(***************************************************************************)
(* Model of streamlit_ecp_schedule.py: the dashboard script that fetches   *)
(* a cached "full history" frame and a cached "latest" frame, merges them  *)
(* (concat / drop_duplicates / sort_values) and arms a one-shot browser    *)
(* timer that reloads the page at minutes :01, :16, :31, :46.              *)
(*                                                                         *)
(* Three specifications share the module:                                  *)
(*   SpecMerge  the merge expression applied to bounded input frames       *)
(*   SpecSched  the JS delay computation for every minute and second       *)
(*   Spec       page-load cycles: scheduler, cached fetches, merge, render *)
(***************************************************************************)
EXTENDS Integers, Sequences, FiniteSets

VARIABLES
    \* --- merge expression on its own (SpecMerge)
    h, l, merged, remerged, mstage,
    \* --- JS scheduler on its own (SpecSched)
    minutes, seconds, delta, sstage,
    \* --- page-load cycles (Spec)
    now,            \* wall clock, seconds
    pc,             \* position of the script run of the current page load
    cache_full,     \* st.cache_data entry of fetch_full_history
    cache_latest,   \* st.cache_data entry of fetch_latest
    data_full, data_latest, df,   \* script variables of the current run
    rendered,       \* the chart/table of this run has been drawn
    timer,          \* pending setTimeout of the current page: its deadline
    loads, armed, fired,          \* page loads / timers armed / timers fired
    call_full, call_latest        \* what the fetch call of this run did

mergeVars == <<h, l, merged, remerged, mstage>>
schedVars == <<minutes, seconds, delta, sstage>>
cycleVars == <<now, pc, cache_full, cache_latest, data_full, data_latest, df,
               rendered, timer, loads, armed, fired, call_full, call_latest>>
vars == <<mergeVars, schedVars, cycleVars>>

None == <<>>
Some(x) == <<x>>

(***************************************************************************)
(* Bounds of the model.                                                    *)
(***************************************************************************)
MaxLen == 2          \* longest input frame given to the merge expression
MaxTs == 3           \* timestamps 1..MaxTs in those frames
MaxLoads == 4        \* page loads in one process lifetime
Values == {"a", "b"} \* measurement values of a row

Timestamps == 1..MaxTs
Samples == [ts : Timestamps, val : Values]
BoundedSeq(S, n) == UNION {[1..k -> S] : k \in 0..n}

(***************************************************************************)
(* The merge expression, lines 104-106.                                    *)
(***************************************************************************)
TsOf(s) == {s[i].ts : i \in 1..Len(s)}

\* pd.concat([data_full, data_latest]): the rows of a, then the rows of b
concat(a, b) == a \o b

\* the rows of s whose timestamp is not in seen, in order
Unseen(s, seen) == LET fresh(x) == x.ts \notin seen IN SelectSeq(s, fresh)

\* first row of each timestamp, by halves: the kept rows of the left half,
\* then the kept rows of the right half whose timestamp the left half lacks
RECURSIVE KeepFirst(_)
KeepFirst(s) ==
    IF Len(s) <= 1 THEN s
    ELSE LET mid == Len(s) \div 2
             left == KeepFirst(SubSeq(s, 1, mid))
             right == KeepFirst(SubSeq(s, mid + 1, Len(s)))
         IN  left \o Unseen(right, TsOf(left))

\* a plausible slip: keep="last" instead of the default keep="first"
drop_duplicates_keep_last(s) ==
    LET n == Len(s)
        keep(i) == \A j \in (i + 1)..n : s[j].ts # s[i].ts
        idx == {i \in 1..n : keep(i)}
        RECURSIVE pick(_)
        pick(i) == IF i > n THEN <<>>
                   ELSE (IF i \in idx THEN <<s[i]>> ELSE <<>>) \o pick(i + 1)
    IN  pick(1)

\* a plausible slip: only a row equal in timestamp to the row just before it
\* is dropped (correct on sorted input only)
drop_duplicates_adjacent(s) ==
    LET n == Len(s)
        RECURSIVE pick(_)
        pick(i) == IF i > n THEN <<>>
                   ELSE (IF i > 1 /\ s[i - 1].ts = s[i].ts THEN <<>> ELSE <<s[i]>>)
                        \o pick(i + 1)
    IN  pick(1)

\* .drop_duplicates("interval_start_local"): the first row of each timestamp
\* is kept, in the order of first appearance
drop_duplicates(s) == KeepFirst(s)

\* ascending by timestamp around the middle row's timestamp; rows of equal
\* timestamp keep their order
RECURSIVE SortByTs(_)
SortByTs(s) ==
    IF Len(s) <= 1 THEN s
    ELSE LET p == s[(Len(s) + 1) \div 2].ts
             below(x) == x.ts < p
             equal(x) == x.ts = p
             above(x) == x.ts > p
         IN  SortByTs(SelectSeq(s, below)) \o SelectSeq(s, equal)
                 \o SortByTs(SelectSeq(s, above))

\* a plausible slip: the sort is left out
sort_values_omitted(s) == s

\* .sort_values("interval_start_local"): ascending by timestamp.  (pandas'
\* default sort is not stable, but the rows sorted here have distinct
\* timestamps, so the order is determined.)
sort_values(s) == SortByTs(s)

\* a plausible slip: the frames concatenated the other way round
merge_latest_first(a, b) == sort_values(drop_duplicates(concat(b, a)))

\* df = pd.concat([data_full, data_latest]).drop_duplicates(..).sort_values(..)
merge(a, b) == sort_values(drop_duplicates(concat(a, b)))

(***************************************************************************)
(* The JS refresh scheduler, lines 53-61.                                  *)
(***************************************************************************)
schedule == <<1, 16, 31, 46>>

\* a plausible slip: <= in the predicate of find
ScheduleFindInclusive(m) ==
    LET hits == {i \in 1..Len(schedule) : m <= schedule[i]}
    IN  IF hits = {} THEN None
        ELSE Some(schedule[CHOOSE i \in hits : \A j \in hits : i <= j])

\* schedule.find(m => now.getMinutes() < m): the first element above the
\* minute, None standing for undefined
ScheduleFind(m) ==
    LET hits == {i \in 1..Len(schedule) : m < schedule[i]}
    IN  IF hits = {} THEN None
        ELSE Some(schedule[CHOOSE i \in hits : \A j \in hits : i <= j])

\* lines 56-59: the delay in seconds handed to setTimeout (times 1000)
nextRefreshDelay(m, s) ==
    LET found == ScheduleFind(m)
        next == IF found = None THEN schedule[1] + 60 ELSE found[1]
        raw == (next - m) * 60 - s
    IN  IF raw < 0 THEN raw + 3600 ELSE raw

getMinutes(t) == (t \div 60) % 60
getSeconds(t) == t % 60

(***************************************************************************)
(* SpecMerge: the merge expression applied to every pair of frames of at   *)
(* most MaxLen rows, in any order and with any duplicates; then applied    *)
(* again to its own result and an empty latest frame.                      *)
(***************************************************************************)
MergeIdle ==
    /\ h = <<>> /\ l = <<>> /\ merged = <<>> /\ remerged = <<>>
    /\ mstage = "off"

DoMerge ==
    /\ mstage = "input"
    /\ merged' = merge(h, l)
    /\ mstage' = "merged"
    /\ UNCHANGED <<h, l, remerged>>
    /\ UNCHANGED <<schedVars, cycleVars>>

DoRemerge ==
    /\ mstage = "merged"
    /\ remerged' = merge(merged, <<>>)
    /\ mstage' = "remerged"
    /\ UNCHANGED <<h, l, merged>>
    /\ UNCHANGED <<schedVars, cycleVars>>

(***************************************************************************)
(* SpecSched: the delay computed for every minute and second of the hour.  *)
(***************************************************************************)
SchedIdle ==
    /\ minutes = 0 /\ seconds = 0 /\ delta = 0 /\ sstage = "off"

ComputeDelay ==
    /\ sstage = "now"
    /\ delta' = nextRefreshDelay(minutes, seconds)
    /\ sstage' = "armed"
    /\ UNCHANGED <<minutes, seconds>>
    /\ UNCHANGED <<mergeVars, cycleVars>>

(***************************************************************************)
(* Spec: page-load cycles.  Times are seconds.                             *)
(***************************************************************************)
HistoryTTL == 24 * 3600      \* @st.cache_data(ttl=24 * 3600)
LatestTTL == 15 * 60         \* @st.cache_data(ttl=15 * 60)
HistoryDays == 14            \* fetch_full_history(days: int = 14)
LatestMinutes == 15          \* fetch_latest(minutes: int = 15)

\* The environment: the upstream dataset holds one row every SampleEvery
\* seconds from instant 0 on, each available from its timestamp on; an
\* upstream request takes one of RequestDurations; the browser runs a timer
\* at its deadline or, throttled or suspended, one of Lateness after it; the
\* first page load happens at one of StartTimes.
SampleEvery == 15 * 60
RequestDurations == {0, 3}
Lateness == {0, 4, 24 * 3600}
StartTimes == {30, 15 * 60 + 59, 46 * 60}

Max(a, b) == IF a >= b THEN a ELSE b

\* client.get_dataset(dataset=.., start=.., end=..): the rows of the dataset
\* with start <= timestamp <= end, ascending
get_dataset(start, end) ==
    LET lo == Max(start, 0)
        first == (lo + SampleEvery - 1) \div SampleEvery
        last == end \div SampleEvery
    IN  [i \in 1..(last - first + 1) |->
            [ts |-> (first + i - 1) * SampleEvery, val |-> "a"]]

\* a plausible slip: the ttl is ignored, an entry is valid for ever
cache_lookup_no_ttl(entry, ttl, t) == entry

\* st.cache_data(ttl=..) on a call at instant t: the stored entry while it is
\* younger than ttl, otherwise a miss
cache_lookup(entry, ttl, t) ==
    IF entry # None /\ t - entry[1].stored < ttl THEN entry ELSE None

\* a plausible slip: try/except around the call, falling back to what is at
\* hand (the stale entry, or an empty frame) and carrying on
failed_call_fallback(entry, next) ==
    [value |-> IF entry = None THEN Some(<<>>) ELSE Some(entry[1].value),
     pc |-> next]

\* lines 102-103: nothing catches the exception of a fetch, so the variable
\* is never bound and the script run ends there
failed_call(entry, next) == [value |-> None, pc |-> "failed"]

\* a plausible slip: the timer is never armed
setTimeout_dropped(t, d) == None

\* setTimeout(() => window.location.reload(), delta * 1000) at instant t
setTimeout(t, d) == Some(t + d)

CycleIdle ==
    /\ now = 0 /\ pc = "off"
    /\ cache_full = None /\ cache_latest = None
    /\ data_full = None /\ data_latest = None /\ df = None
    /\ rendered = FALSE /\ timer = None
    /\ loads = 0 /\ armed = 0 /\ fired = 0
    /\ call_full = None /\ call_latest = None

\* lines 50-65: the scheduler component is emitted, and its script run by the
\* browser, before any data is fetched
EmitScheduler ==
    /\ pc = "scheduler"
    /\ timer' = setTimeout(now, nextRefreshDelay(getMinutes(now), getSeconds(now)))
    /\ armed' = armed + Len(timer')
    /\ pc' = "fetch_full_history"
    /\ UNCHANGED <<now, cache_full, cache_latest, data_full, data_latest, df,
                   rendered, loads, fired, call_full, call_latest>>
    /\ UNCHANGED <<mergeVars, schedVars>>

CallRecord(at, before, requests, ok, after) ==
    Some([at |-> at, before |-> before, requests |-> requests, ok |-> ok,
          after |-> after])

\* line 102, data_full = fetch_full_history(), served from the cache
FullHit ==
    /\ pc = "fetch_full_history"
    /\ cache_lookup(cache_full, HistoryTTL, now) # None
    /\ data_full' = Some(cache_lookup(cache_full, HistoryTTL, now)[1].value)
    /\ call_full' = CallRecord(now, cache_full, 0, TRUE, cache_full)
    /\ pc' = "fetch_latest"
    /\ UNCHANGED <<now, cache_full, cache_latest, data_latest, df, rendered,
                   timer, loads, armed, fired, call_latest>>
    /\ UNCHANGED <<mergeVars, schedVars>>

\* line 102 on a miss: lines 77-86 run, the request succeeds, the result is
\* stored with the instant of storing
FullFetched ==
    /\ pc = "fetch_full_history"
    /\ cache_lookup(cache_full, HistoryTTL, now) = None
    /\ \E d \in RequestDurations :
         LET got == get_dataset(now - HistoryDays * 24 * 3600, now)
         IN  /\ now' = now + d
             /\ cache_full' = Some([value |-> got, stored |-> now + d])
             /\ data_full' = Some(got)
             /\ call_full' = CallRecord(now, cache_full, 1, TRUE, cache_full')
    /\ pc' = "fetch_latest"
    /\ UNCHANGED <<cache_latest, data_latest, df, rendered, timer, loads, armed,
                   fired, call_latest>>
    /\ UNCHANGED <<mergeVars, schedVars>>

\* line 102 on a miss, the request raising
FullFailed ==
    /\ pc = "fetch_full_history"
    /\ cache_lookup(cache_full, HistoryTTL, now) = None
    /\ \E d \in RequestDurations : now' = now + d
    /\ data_full' = failed_call(cache_full, "fetch_latest").value
    /\ pc' = failed_call(cache_full, "fetch_latest").pc
    /\ call_full' = CallRecord(now, cache_full, 1, FALSE, cache_full)
    /\ UNCHANGED <<cache_full, cache_latest, data_latest, df, rendered, timer,
                   loads, armed, fired, call_latest>>
    /\ UNCHANGED <<mergeVars, schedVars>>

fetch_full_history == FullHit \/ FullFetched \/ FullFailed

\* line 103, data_latest = fetch_latest(), served from the cache
LatestHit ==
    /\ pc = "fetch_latest"
    /\ cache_lookup(cache_latest, LatestTTL, now) # None
    /\ data_latest' = Some(cache_lookup(cache_latest, LatestTTL, now)[1].value)
    /\ call_latest' = CallRecord(now, cache_latest, 0, TRUE, cache_latest)
    /\ pc' = "merge"
    /\ UNCHANGED <<now, cache_full, cache_latest, data_full, df, rendered,
                   timer, loads, armed, fired, call_full>>
    /\ UNCHANGED <<mergeVars, schedVars>>

\* line 103 on a miss: lines 90-99 run and the request succeeds
LatestFetched ==
    /\ pc = "fetch_latest"
    /\ cache_lookup(cache_latest, LatestTTL, now) = None
    /\ \E d \in RequestDurations :
         LET got == get_dataset(now - LatestMinutes * 60, now)
         IN  /\ now' = now + d
             /\ cache_latest' = Some([value |-> got, stored |-> now + d])
             /\ data_latest' = Some(got)
             /\ call_latest' = CallRecord(now, cache_latest, 1, TRUE, cache_latest')
    /\ pc' = "merge"
    /\ UNCHANGED <<cache_full, data_full, df, rendered, timer, loads, armed,
                   fired, call_full>>
    /\ UNCHANGED <<mergeVars, schedVars>>

\* line 103 on a miss, the request raising
LatestFailed ==
    /\ pc = "fetch_latest"
    /\ cache_lookup(cache_latest, LatestTTL, now) = None
    /\ \E d \in RequestDurations : now' = now + d
    /\ data_latest' = failed_call(cache_latest, "merge").value
    /\ pc' = failed_call(cache_latest, "merge").pc
    /\ call_latest' = CallRecord(now, cache_latest, 1, FALSE, cache_latest)
    /\ UNCHANGED <<cache_full, cache_latest, data_full, df, rendered, timer,
                   loads, armed, fired, call_full>>
    /\ UNCHANGED <<mergeVars, schedVars>>

fetch_latest == LatestHit \/ LatestFetched \/ LatestFailed

\* lines 104-106
Combine ==
    /\ pc = "merge"
    /\ df' = Some(merge(data_full[1], data_latest[1]))
    /\ pc' = "render"
    /\ UNCHANGED <<now, cache_full, cache_latest, data_full, data_latest,
                   rendered, timer, loads, armed, fired, call_full, call_latest>>
    /\ UNCHANGED <<mergeVars, schedVars>>

\* lines 109-153: footer, chart and table drawn from df
Render ==
    /\ pc = "render"
    /\ rendered' = TRUE
    /\ pc' = "done"
    /\ UNCHANGED <<now, cache_full, cache_latest, data_full, data_latest, df,
                   timer, loads, armed, fired, call_full, call_latest>>
    /\ UNCHANGED <<mergeVars, schedVars>>

\* line 60: the timer runs once, no earlier than its deadline (lateness is
\* how long after it), and reloads the page: the page's context (and its
\* timer) is replaced and the script runs again from the top.  The caches
\* outlive the page.
Reload(lateness) ==
    /\ timer # None
    /\ loads < MaxLoads
    /\ pc \in {"done", "failed"} \/ now >= timer[1]
    /\ \E late \in lateness : now' = Max(now, timer[1] + late)
    /\ timer' = None
    /\ fired' = fired + 1
    /\ loads' = loads + 1
    /\ pc' = "scheduler"
    /\ data_full' = None /\ data_latest' = None /\ df' = None
    /\ rendered' = FALSE
    /\ call_full' = None /\ call_latest' = None
    /\ UNCHANGED <<cache_full, cache_latest, armed>>
    /\ UNCHANGED <<mergeVars, schedVars>>

\* the timer of a browser that may be throttled or suspended
TimerFire == Reload(Lateness)

\* the timer of a browser that runs it at its deadline
TimerFireOnTime == Reload({0})

InitMerge ==
    /\ h \in BoundedSeq(Samples, MaxLen)
    /\ l \in BoundedSeq(Samples, MaxLen)
    /\ merged = <<>> /\ remerged = <<>> /\ mstage = "input"
    /\ SchedIdle /\ CycleIdle

NextMerge == DoMerge \/ DoRemerge

SpecMerge == InitMerge /\ [][NextMerge]_vars

InitSched ==
    /\ minutes \in 0..59 /\ seconds \in 0..59
    /\ delta = 0 /\ sstage = "now"
    /\ MergeIdle /\ CycleIdle

NextSched == ComputeDelay

SpecSched == InitSched /\ [][NextSched]_vars

Init ==
    /\ now \in StartTimes
    /\ pc = "scheduler"
    /\ cache_full = None /\ cache_latest = None
    /\ data_full = None /\ data_latest = None /\ df = None
    /\ rendered = FALSE /\ timer = None
    /\ loads = 1 /\ armed = 0 /\ fired = 0
    /\ call_full = None /\ call_latest = None
    /\ MergeIdle /\ SchedIdle

Next ==
    \/ EmitScheduler
    \/ fetch_full_history
    \/ fetch_latest
    \/ Combine
    \/ Render
    \/ TimerFire

Spec == Init /\ [][Next]_vars

\* The same cycles in the most favourable environment: every upstream
\* request succeeds and every timer runs at its deadline.
NextOnTime ==
    \/ EmitScheduler
    \/ FullHit
    \/ FullFetched
    \/ LatestHit
    \/ LatestFetched
    \/ Combine
    \/ Render
    \/ TimerFireOnTime

SpecOnTime == Init /\ [][NextOnTime]_vars

(***************************************************************************)
(* Properties of the merge expression (SpecMerge).                         *)
(***************************************************************************)
CountAt(s, t) == Cardinality({i \in 1..Len(s) : s[i].ts = t})

FirstAt(s, t) ==
    s[CHOOSE i \in 1..Len(s) : s[i].ts = t /\ \A j \in 1..(i - 1) : s[j].ts # t]

StrictlyIncreasing(s) == \A i \in 1..(Len(s) - 1) : s[i].ts < s[i + 1].ts

\* r is s deduplicated by timestamp (first row kept) and sorted ascending
IsDedupSorted(r, s) ==
    /\ StrictlyIncreasing(r)
    /\ TsOf(r) = TsOf(s)
    /\ \A i \in 1..Len(r) : r[i] = FirstAt(s, r[i].ts)

Merged == mstage \in {"merged", "remerged"}

\* C1: for every timestamp t present in both h and l, the merged frame holds
\* exactly one row at t, and it is h's row at t (the first one h has), never
\* l's copy.
C1_HistoryCopyWins ==
    Merged =>
        \A t \in TsOf(h) \cap TsOf(l) :
            /\ CountAt(merged, t) = 1
            /\ FirstAt(merged, t) = FirstAt(h, t)

C1_Witness ==
    /\ mstage = "merged"
    /\ \E t \in TsOf(h) \cap TsOf(l) :
         /\ FirstAt(h, t).val # FirstAt(l, t).val
         /\ FirstAt(merged, t) = FirstAt(h, t)

\* C2: whatever the order and the duplicates of h and l, the merged frame is
\* strictly increasing by timestamp (ascending, no timestamp twice).
C2_StrictlyIncreasing == Merged => StrictlyIncreasing(merged)

C2_Witness ==
    /\ mstage = "merged"
    /\ ~StrictlyIncreasing(h)
    /\ CountAt(h \o l, 1) >= 2
    /\ Len(merged) >= 2

\* C6: merging the merged frame with an empty latest frame gives the merged
\* frame again.
C6_Idempotent == mstage = "remerged" => remerged = merged

C6_Witness ==
    /\ mstage = "remerged"
    /\ Len(merged) >= 2
    /\ merged # h \o l
    /\ remerged = merged

\* C7 as stated: merge([], []) is empty, merge(h, []) is h deduplicated and
\* sorted, and merge([], l) is l itself, for every l.
C7_AsStated ==
    Merged =>
        /\ (h = <<>> /\ l = <<>>) => merged = <<>>
        /\ l = <<>> => IsDedupSorted(merged, h)
        /\ h = <<>> => merged = l

\* C7 amended: merge([], []) is empty, merge(h, []) is h deduplicated and
\* sorted, and merge([], l) is l deduplicated and sorted, which is l itself
\* when l is strictly increasing by timestamp.
C7_EmptyInputs ==
    Merged =>
        /\ (h = <<>> /\ l = <<>>) => merged = <<>>
        /\ l = <<>> => IsDedupSorted(merged, h)
        /\ h = <<>> => IsDedupSorted(merged, l)
        /\ (h = <<>> /\ StrictlyIncreasing(l)) => merged = l

C7_Witness ==
    /\ mstage = "merged"
    /\ h = <<>>
    /\ Len(l) = 2 /\ l[1].ts > l[2].ts
    /\ merged = <<l[2], l[1]>>

\* the rows of r at a timestamp of h all come before the row of r at t
AfterAllOf(r, t) ==
    \A i, j \in 1..Len(r) :
        (r[i].ts \in TsOf(h) /\ r[j].ts = t) => i < j

\* C8 as stated: every timestamp of l that h lacks is retained with l's
\* values, after every row that came from h.
C8_AsStated ==
    Merged =>
        \A t \in TsOf(l) \ TsOf(h) :
            /\ CountAt(merged, t) = 1
            /\ FirstAt(merged, t) = FirstAt(l, t)
            /\ AfterAllOf(merged, t)

\* C8 amended: every timestamp of l that h lacks is retained once, with the
\* values of l's first row at it, at its place in timestamp order; it comes
\* after every row that came from h exactly when it is later than every
\* timestamp of h.
C8_LatestOnlyRetained ==
    Merged =>
        \A t \in TsOf(l) \ TsOf(h) :
            /\ CountAt(merged, t) = 1
            /\ FirstAt(merged, t) = FirstAt(l, t)
            /\ \A i, j \in 1..Len(merged) :
                 merged[j].ts = t => (i < j <=> merged[i].ts < t)
            /\ AfterAllOf(merged, t) <=> (\A u \in TsOf(h) : u < t)

C8_Witness ==
    /\ mstage = "merged"
    /\ \E t \in TsOf(l) \ TsOf(h) :
         /\ \E u \in TsOf(h) : t < u
         /\ \E u \in TsOf(h) : u < t
         /\ CountAt(l, t) = 2

(***************************************************************************)
(* Properties of the delay computation (SpecSched).                        *)
(***************************************************************************)
SchedulePoints == {1, 16, 31, 46}

\* the smallest schedule point strictly above minute m, or 61
NextPoint(m) ==
    IF \E p \in SchedulePoints : p > m
    THEN CHOOSE p \in SchedulePoints :
             p > m /\ \A q \in SchedulePoints : q > m => p <= q
    ELSE 61

\* C3: the delay is (t - m) * 60 - s for t the next schedule point after m
\* (61 when there is none), so that now + delay is second 0 of the next
\* schedule minute; 00:00:30 gives 30, 00:46:00 gives 900, 00:15:59 gives 1.
C3_NextRefreshDelay ==
    sstage = "armed" =>
        /\ delta = (NextPoint(minutes) - minutes) * 60 - seconds
        /\ (minutes * 60 + seconds + delta) % 3600
               \in {p * 60 : p \in SchedulePoints}
        /\ delta >= 1 /\ delta <= 15 * 60
        /\ (minutes = 0 /\ seconds = 30) => delta = 30
        /\ (minutes = 46 /\ seconds = 0) => delta = 900
        /\ (minutes = 15 /\ seconds = 59) => delta = 1

C3_Witness ==
    /\ sstage = "armed"
    /\ minutes = 59 /\ seconds = 59
    /\ delta = 61

(***************************************************************************)
(* Properties of the page-load cycles (Spec).                              *)
(***************************************************************************)
\* the entry the call found was stored less than ttl before the call
Within(c, ttl) == c.before # None /\ c.at - c.before[1].stored < ttl

\* the entry the call found was stored ttl or more before the call
Elapsed(c, ttl) == c.before # None /\ c.at - c.before[1].stored >= ttl

\* a call within the TTL: the cached frame, no upstream request
ServedFromCache(call, data) ==
    /\ call[1].requests = 0
    /\ call[1].after = call[1].before
    /\ data = Some(call[1].before[1].value)

\* the entry has been replaced by one stored at or after the call
Replaced(call) ==
    /\ call[1].after # None
    /\ call[1].after # call[1].before
    /\ call[1].after[1].stored >= call[1].at

TtlAsStated(call, data, ttl) ==
    call # None =>
        /\ Within(call[1], ttl) => ServedFromCache(call, data)
        /\ Elapsed(call[1], ttl) => call[1].requests = 1 /\ Replaced(call)

TtlAmended(call, data, ttl) ==
    call # None =>
        /\ Within(call[1], ttl) => ServedFromCache(call, data)
        /\ Elapsed(call[1], ttl) =>
             /\ call[1].requests = 1
             /\ call[1].ok => Replaced(call) /\ data = Some(call[1].after[1].value)
             /\ ~call[1].ok => call[1].after = call[1].before /\ data = None

\* C4 as stated: per window class (history 24 h, latest 15 min), a call
\* within the TTL returns the cached frame with no upstream request, and a
\* call after the TTL issues exactly one request and replaces the entry.
C4_AsStated ==
    /\ TtlAsStated(call_full, data_full, 24 * 3600)
    /\ TtlAsStated(call_latest, data_latest, 15 * 60)

\* C4 amended: ... a call after the TTL issues exactly one request; when the
\* request succeeds the entry is replaced and the new frame returned; when
\* it fails the call fails and the expired entry is not replaced.
C4_CacheTtl ==
    /\ TtlAmended(call_full, data_full, 24 * 3600)
    /\ TtlAmended(call_latest, data_latest, 15 * 60)
    /\ call_full # None => cache_full = call_full[1].after
    /\ call_latest # None => cache_latest = call_latest[1].after

C4_Witness ==
    /\ call_full # None /\ Elapsed(call_full[1], 24 * 3600)
    /\ call_full[1].ok /\ Replaced(call_full)
    /\ call_latest # None /\ Elapsed(call_latest[1], 15 * 60)
    /\ ~call_latest[1].ok

Failed(call) == call # None /\ ~call[1].ok
Succeeded(call) == call # None /\ call[1].ok

\* C5: when the upstream request of either fetch fails, the call fails, no
\* stale cached frame stands in for it, and the cycle produces no merged
\* frame; a merged frame exists only when both fetch calls succeeded.
C5_NoPartialResult ==
    /\ Failed(call_full) =>
         /\ pc = "failed" /\ data_full = None /\ call_latest = None
         /\ df = None /\ ~rendered
    /\ Failed(call_latest) =>
         /\ pc = "failed" /\ data_latest = None
         /\ df = None /\ ~rendered
    /\ (df # None \/ rendered) => Succeeded(call_full) /\ Succeeded(call_latest)

C5_Witness ==
    /\ Succeeded(call_full) /\ Failed(call_latest)
    /\ cache_latest # None
    /\ pc = "failed" /\ df = None

UpstreamTs(t) == {k * SampleEvery : k \in 0..(t \div SampleEvery)}

\* the newest timestamp of a frame (0 for an empty one)
NewestTs(s) == IF s = <<>> THEN 0 ELSE CHOOSE t \in TsOf(s) : \A u \in TsOf(s) : u <= t

\* C10: the merged frame of a render holds every upstream row whose
\* timestamp lies between the instant the cached history entry was fetched
\* and now; stated here in the form the claim draws from it, that the chart
\* has no gap: no upstream row between that instant and the newest row of
\* the merged frame is missing from it.
C10_NoGap ==
    df # None =>
        \A t \in UpstreamTs(now) :
            (cache_full[1].stored <= t /\ t <= NewestTs(df[1])) => t \in TsOf(df[1])

====
